---------------------------- MODULE Spec2Model ----------------------------
(***************************************************************************)
(* Contacts API (Express + JSON-Lines file storage).                       *)
(*                                                                         *)
(*   src/src/utils/fileHelpers.ts      persistence adapter                 *)
(*   src/src/services/contactService.ts service layer                      *)
(*   src/src/routes/router.ts          route handlers (second draft,       *)
(*                                     lines 325-628) and the validation   *)
(*                                     module (lines 629-839)              *)
(*                                                                         *)
(* Text is a sequence of one-character strings, so that toLowerCase, trim, *)
(* includes("@") and replace(/\D/g, "") are computed character by          *)
(* character.  A JavaScript value is a record [t, s, n]: t is the kind of  *)
(* value, s the characters of a string, n the value of a finite number.    *)
(***************************************************************************)
EXTENDS Integers, Sequences, FiniteSets, TLC

VARIABLES
    arg,       \* persistence adapter: the list its caller saves
    file,      \* content of ./data/list.txt: the lines that split("\n") yields
    exists,    \* whether ./data/list.txt exists
    call,      \* persistence adapter: the call made last
    prev,      \* persistence adapter: the call made before it
    slots,     \* the HTTP requests in flight, one per slot
    issued,    \* number of requests received so far
    faults,    \* number of I/O failures that have happened so far
    uuids,     \* number of ids drawn from randomUUID so far
    overlap,   \* whether two requests have ever been in flight together
    engine     \* validation and deduplication on their own: the call and its result

vars == <<arg, file, exists, call, prev, slots, issued, faults, uuids, overlap, engine>>

---------------------------------------------------------------------------
(* Bounds of the model *)

MaxLines == 2      \* lines of a storage file / records of a list handed to the adapter
MaxReq == 3        \* requests received in one behaviour
MaxFaults == 1     \* I/O failures in one behaviour
MaxRecs == 2       \* existing records handed to a validation
MaxDedup == 3      \* records handed to the deduplication

---------------------------------------------------------------------------
(* JavaScript values *)

Undef == [t |-> "undef", s |-> <<>>, n |-> 0]          \* undefined, or a key that is absent
Null == [t |-> "null", s |-> <<>>, n |-> 0]
Inf == [t |-> "inf", s |-> <<>>, n |-> 0]              \* the number Infinity
Huge == [t |-> "huge", s |-> <<>>, n |-> 0]            \* the JSON number literal 1e999
Str(x) == [t |-> "str", s |-> x, n |-> 0]
Num(k) == [t |-> "num", s |-> <<>>, n |-> k]
Uuid(k) == [t |-> "uuid", s |-> <<>>, n |-> k]         \* the k-th string randomUUID returned

typeof(v) ==
    CASE v.t \in {"str", "uuid"} -> "string"
      [] v.t \in {"num", "inf", "huge"} -> "number"
      [] v.t = "undef" -> "undefined"
      [] OTHER -> "object"

\* ToBoolean: undefined, null, "" and 0 are falsy
Truthy(v) ==
    CASE v.t = "str" -> v.s # <<>>
      [] v.t = "num" -> v.n # 0
      [] v.t \in {"uuid", "inf", "huge"} -> TRUE
      [] OTHER -> FALSE

\* a ?? b
Coalesce(a, b) == IF a.t \in {"undef", "null"} THEN b ELSE a

---------------------------------------------------------------------------
(* String.prototype functions, on sequences of characters *)

toLowerCaseChar(c) ==
    CASE c = "A" -> "a" [] c = "B" -> "b" [] c = "C" -> "c" [] c = "I" -> "i"
      [] c = "J" -> "j"
      [] c = "L" -> "l" [] c = "M" -> "m" [] c = "N" -> "n" [] c = "O" -> "o"
      [] c = "S" -> "s" [] c = "U" -> "u" [] c = "V" -> "v" [] c = "X" -> "x"
      [] c = "Y" -> "y" [] c = "Z" -> "z"
      [] OTHER -> c

toLowerCase(x) == [i \in 1..Len(x) |-> toLowerCaseChar(x[i])]

IsSpace(c) == c = " "

RECURSIVE trimStart(_)
trimStart(x) ==
    IF x # <<>> /\ IsSpace(Head(x)) THEN trimStart(Tail(x)) ELSE x

RECURSIVE trimEnd(_)
trimEnd(x) ==
    IF x # <<>> /\ IsSpace(x[Len(x)]) THEN trimEnd(SubSeq(x, 1, Len(x) - 1)) ELSE x

trim(x) == trimEnd(trimStart(x))

includes(x, c) == \E i \in 1..Len(x) : x[i] = c

IsDigit(c) == c \in {"0", "1", "2", "3", "4", "5", "6", "7", "8", "9"}

\* x.replace(/\D/g, "")
digitsOnly(x) == SelectSeq(x, IsDigit)

---------------------------------------------------------------------------
(* Contact objects, and the lines of the storage file *)

Contact(id, fullName, surname, email, phone) ==
    [id |-> id, fullName |-> fullName, surname |-> surname, email |-> email, phone |-> phone]

NoFields == Contact(Undef, Undef, Undef, Undef, Undef)

\* A line of text: blank ("" or white space), not JSON, JSON that is no object
\* (null, 5, "x"), or a JSON object; fmt tells the canonical text that
\* JSON.stringify produces from any other text of the same value.
EmptyLine == [kind |-> "blank", fmt |-> "canon", obj |-> NoFields]
SpacesLine == [kind |-> "blank", fmt |-> "spaced", obj |-> NoFields]
GarbageLine == [kind |-> "garbage", fmt |-> "canon", obj |-> NoFields]
ScalarLine == [kind |-> "scalar", fmt |-> "canon", obj |-> NoFields]
ObjectLine(fmt, o) == [kind |-> "object", fmt |-> fmt, obj |-> o]

\* line.trim() !== ""
IsBlank(line) == line.kind = "blank"

\* JSON.parse of a value: a number literal too large for a double is Infinity
ParseValue(v) == IF v.t = "huge" THEN Inf ELSE v

\* JSON.stringify of a value: Infinity is written null, undefined drops the key
StringifyValue(v) == IF v.t \in {"inf", "huge"} THEN Null ELSE v

\* JSON.parse(line) for a line holding a JSON object
JSONparse(line) ==
    LET o == line.obj IN
    Contact(ParseValue(o.id), ParseValue(o.fullName), ParseValue(o.surname),
            ParseValue(o.email), ParseValue(o.phone))

\* JSON.stringify(c): one line, no white space
JSONstringify(c) ==
    ObjectLine("canon",
               Contact(StringifyValue(c.id), StringifyValue(c.fullName),
                       StringifyValue(c.surname), StringifyValue(c.email),
                       StringifyValue(c.phone)))

\* data.split("\n") and lines.join("\n"): the text is kept as its lines, and
\* the empty text is the single empty line
EmptyText == <<EmptyLine>>
\* (variant: every line is ended by a newline)
joinEndingEachLine(ls) == ls \o <<EmptyLine>>

join(ls) == IF ls = <<>> THEN EmptyText ELSE ls

\* lines.map(JSON.parse) and list.map(JSON.stringify)
parseLines(ls) == [i \in 1..Len(ls) |-> JSONparse(ls[i])]
stringifyAll(list) == [i \in 1..Len(list) |-> JSONstringify(list[i])]

---------------------------------------------------------------------------
(* src/src/utils/fileHelpers.ts *)

\* The shape test as the expression is parsed: && binds tighter than ||
isValidContact(c) ==
    \/ typeof(c.id) = "string"
    \/ /\ typeof(c.id) = "number"
       /\ typeof(c.fullName) = "string"
       /\ typeof(c.surname) = "string"
       /\ (c.email = Undef \/ typeof(c.email) = "string")
       /\ (c.phone = Undef \/ typeof(c.phone) = "string")

\* A line survives the read when it is JSON whose value passes isValidContact
LineIsContact(line) == line.kind = "object" /\ isValidContact(JSONparse(line))

NotBlank(line) == ~IsBlank(line)

\* The outcomes of the I/O under readContactList: the read succeeds, the file
\* is missing (ENOENT), the read fails otherwise, or ./data cannot be created
ReadOutcomes == IF exists THEN {"ok", "EIO"} ELSE {"ENOENT", "EACCES"}

Returned(list) == [threw |-> FALSE, list |-> list]
Threw == [threw |-> TRUE, list |-> <<>>]

\* (variant: a failure other than a missing file is raised to the caller)
readContactListRethrows(text, io) ==
    IF io = "ok"
    THEN Returned(parseLines(SelectSeq(SelectSeq(text, NotBlank), LineIsContact)))
    ELSE IF io = "ENOENT" THEN Returned(<<>>) ELSE Threw

readContactList(text, io) ==
    IF io = "ok"
    THEN Returned(parseLines(SelectSeq(SelectSeq(text, NotBlank), LineIsContact)))
    ELSE Returned(<<>>)

\* The text saveContactList hands to writeFile
saveData(list) == join(stringifyAll(SelectSeq(list, isValidContact)))

\* The outcomes of a write: done, or failed leaving the file as it was, or
\* failed after the file was opened for writing (and so truncated)
WriteOutcomes == {"ok", "failed", "failedTruncated"}

\* What saveContactList and clearContactList do once the write has ended
\* (variant: the catch block logs and does not throw)
writeThrowsSwallowed(io) == FALSE

writeThrows(io) == io # "ok"

\* The file after writeFile(FILE_NAME, data) ended with outcome io
\* (variant: the data is appended to the file, as with flag "a")
writeFileAppend(old, wasThere, data, io) ==
    CASE io = "ok" -> [text |-> IF wasThere THEN old \o data ELSE data, exists |-> TRUE]
      [] io = "failedTruncated" -> [text |-> EmptyText, exists |-> TRUE]
      [] OTHER -> [text |-> old, exists |-> wasThere]

writeFile(old, wasThere, data, io) ==
    CASE io = "ok" -> [text |-> data, exists |-> TRUE]
      [] io = "failedTruncated" -> [text |-> EmptyText, exists |-> TRUE]
      [] OTHER -> [text |-> old, exists |-> wasThere]

---------------------------------------------------------------------------
(* src/src/routes/router.ts, lines 629-839: the validation module.  A       *)
(* validation returns "ok" for null and otherwise the name of its message;  *)
(* "TypeError" stands for the exception raised by calling a string method   *)
(* on a value that is no string.                                            *)

IsStr(v) == v.t = "str"

Min(S) == CHOOSE x \in S : \A y \in S : x <= y

\* `${fullName.toLowerCase().trim()}-${surname.toLowerCase().trim()}`
nameKeyOf(fullName, surname) ==
    trim(toLowerCase(fullName.s)) \o <<"-">> \o trim(toLowerCase(surname.s))

\* c.email?.toLowerCase().trim()
emailKeyOf(email) ==
    IF email.t \in {"undef", "null"} THEN Undef ELSE Str(trim(toLowerCase(email.s)))

\* (variant: the phone is compared as it was typed)
phoneKeyOfAsTyped(phone) ==
    IF phone.t \in {"undef", "null"} THEN Undef ELSE Str(phone.s)

\* c.phone?.replace(/\D/g, "")
phoneKeyOf(phone) ==
    IF phone.t \in {"undef", "null"} THEN Undef ELSE Str(digitsOnly(phone.s))

\* (variant: the surname is checked before the name)
validateBasicFieldsSurnameFirst(contact) ==
    IF ~Truthy(contact.surname) \/ Len(trim(contact.surname.s)) < 3 THEN "ErrSurname"
    ELSE IF ~Truthy(contact.fullName) \/ Len(trim(contact.fullName.s)) < 2 THEN "ErrName"
    ELSE IF Truthy(contact.email) /\ ~includes(contact.email.s, "@") THEN "ErrEmail"
    ELSE IF Truthy(contact.phone) /\ Len(digitsOnly(contact.phone.s)) < 8 THEN "ErrPhone"
    ELSE "ok"

validateBasicFields(contact) ==
    IF ~Truthy(contact.fullName) \/ Len(trim(contact.fullName.s)) < 2 THEN "ErrName"
    ELSE IF ~Truthy(contact.surname) \/ Len(trim(contact.surname.s)) < 3 THEN "ErrSurname"
    ELSE IF Truthy(contact.email) /\ ~includes(contact.email.s, "@") THEN "ErrEmail"
    ELSE IF Truthy(contact.phone) /\ Len(digitsOnly(contact.phone.s)) < 8 THEN "ErrPhone"
    ELSE "ok"

validateDuplicateId(id, list) ==
    IF Truthy(id) /\ \E i \in 1..Len(list) : list[i].id = id THEN "ErrIdExists" ELSE "ok"

\* list.some(...) on the name keys: stops at the first record that matches,
\* or that makes c.fullName.toLowerCase() / c.surname.toLowerCase() raise
duplicateName(contact, list) ==
    LET key == nameKeyOf(contact.fullName, contact.surname)
        raises(c) == ~IsStr(c.fullName) \/ ~IsStr(c.surname)
        stops == { i \in 1..Len(list) :
                     raises(list[i]) \/ nameKeyOf(list[i].fullName, list[i].surname) = key }
    IN  IF stops = {} THEN "ok"
        ELSE IF raises(list[Min(stops)]) THEN "TypeError" ELSE "ErrDupName"

\* (variant: the email of the candidate is compared as it was typed)
validateDuplicateFieldsExactEmail(contact, list) ==
    LET nameError == IF Truthy(contact.fullName) /\ Truthy(contact.surname)
                     THEN duplicateName(contact, list) ELSE "ok"
    IN  IF nameError # "ok" THEN nameError
        ELSE IF /\ Truthy(contact.email)
                /\ \E i \in 1..Len(list) : emailKeyOf(list[i].email) = contact.email
        THEN "ErrDupEmail"
        ELSE IF /\ Truthy(contact.phone)
                /\ \E i \in 1..Len(list) :
                       phoneKeyOf(list[i].phone) = Str(digitsOnly(contact.phone.s))
        THEN "ErrDupPhone"
        ELSE "ok"

validateDuplicateFields(contact, list) ==
    LET nameError == IF Truthy(contact.fullName) /\ Truthy(contact.surname)
                     THEN duplicateName(contact, list) ELSE "ok"
    IN  IF nameError # "ok" THEN nameError
        ELSE IF /\ Truthy(contact.email)
                /\ \E i \in 1..Len(list) :
                       emailKeyOf(list[i].email) = Str(trim(toLowerCase(contact.email.s)))
        THEN "ErrDupEmail"
        ELSE IF /\ Truthy(contact.phone)
                /\ \E i \in 1..Len(list) :
                       phoneKeyOf(list[i].phone) = Str(digitsOnly(contact.phone.s))
        THEN "ErrDupPhone"
        ELSE "ok"

\* list.findIndex((c) => c.id === id), counted from 1; 0 stands for -1
findContactIndex(id, list) ==
    LET hits == { i \in 1..Len(list) : list[i].id = id }
    IN  IF hits = {} THEN 0 ELSE Min(hits)

validateContactCreation(contact, list) ==
    LET basicError == validateBasicFields(contact)
        idError == IF Truthy(contact.id) THEN validateDuplicateId(contact.id, list) ELSE "ok"
    IN  IF basicError # "ok" THEN basicError
        ELSE IF idError # "ok" THEN idError
        ELSE validateDuplicateFields(contact, list)

\* (variant: every field is required, as on creation)
validateContactUpdateAllFields(contact, list, currentId) ==
    IF validateBasicFields(contact) # "ok" THEN validateBasicFields(contact)
    ELSE validateDuplicateFields(contact, SelectSeq(list, LAMBDA c : c.id # currentId))

validateContactUpdate(contact, list, currentId) ==
    IF contact.fullName # Undef /\ ~IsStr(contact.fullName) THEN "TypeError"
    ELSE IF contact.fullName # Undef /\ Len(trim(contact.fullName.s)) < 2 THEN "ErrName"
    ELSE IF contact.surname # Undef /\ ~IsStr(contact.surname) THEN "TypeError"
    ELSE IF contact.surname # Undef /\ Len(trim(contact.surname.s)) < 3 THEN "ErrSurname"
    ELSE IF Truthy(contact.email) /\ ~includes(contact.email.s, "@") THEN "ErrEmail"
    ELSE IF Truthy(contact.phone) /\ Len(digitsOnly(contact.phone.s)) < 8 THEN "ErrPhone"
    ELSE validateDuplicateFields(contact, SelectSeq(list, LAMBDA c : c.id # currentId))

---------------------------------------------------------------------------
(* src/src/services/contactService.ts *)

\* list.push(contact)
addContactList(list, contact) == Append(list, contact)

\* list[index] = updatedContact; written past the end, the array gets holes,
\* which the filter of saveContactList skips
updateContactInListList(list, index, updatedContact) ==
    IF index <= Len(list) THEN [list EXCEPT ![index] = updatedContact]
    ELSE Append(list, updatedContact)

\* list.filter((c) => c.id !== id)
deleteContactByIdList(list, id) == SelectSeq(list, LAMBDA c : c.id # id)

\* (variant: the keys of a removed record are marked as seen too)
RECURSIVE dedupPassMarkingAll(_, _, _, _, _, _, _)
dedupPassMarkingAll(list, i, seenEmails, seenPhones, seenNames, cleanedList, removedCount) ==
    IF i > Len(list)
    THEN [threw |-> FALSE, cleanedList |-> cleanedList, removedCount |-> removedCount]
    ELSE LET c == list[i]
             emailKey == emailKeyOf(c.email)
             phoneKey == phoneKeyOf(c.phone)
         IN  IF ~IsStr(c.fullName) \/ ~IsStr(c.surname)
             THEN [threw |-> TRUE, cleanedList |-> cleanedList, removedCount |-> removedCount]
             ELSE LET nameKey == nameKeyOf(c.fullName, c.surname)
                      isDup ==
                          \/ Truthy(emailKey) /\ emailKey.s \in seenEmails
                          \/ Truthy(phoneKey) /\ phoneKey.s \in seenPhones
                          \/ nameKey \in seenNames
                  IN  dedupPassMarkingAll(list, i + 1,
                          IF Truthy(emailKey) THEN seenEmails \cup {emailKey.s} ELSE seenEmails,
                          IF Truthy(phoneKey) THEN seenPhones \cup {phoneKey.s} ELSE seenPhones,
                          seenNames \cup {nameKey},
                          IF isDup THEN cleanedList ELSE Append(cleanedList, c),
                          IF isDup THEN removedCount + 1 ELSE removedCount)

\* The forward pass of removeDuplicateContacts from record i on
RECURSIVE dedupPass(_, _, _, _, _, _, _)
dedupPass(list, i, seenEmails, seenPhones, seenNames, cleanedList, removedCount) ==
    IF i > Len(list)
    THEN [threw |-> FALSE, cleanedList |-> cleanedList, removedCount |-> removedCount]
    ELSE LET c == list[i]
             emailKey == emailKeyOf(c.email)
             phoneKey == phoneKeyOf(c.phone)
         IN  IF ~IsStr(c.fullName) \/ ~IsStr(c.surname)
             THEN [threw |-> TRUE, cleanedList |-> cleanedList, removedCount |-> removedCount]
             ELSE LET nameKey == nameKeyOf(c.fullName, c.surname)
                      isDuplicate ==
                          \/ Truthy(emailKey) /\ emailKey.s \in seenEmails
                          \/ Truthy(phoneKey) /\ phoneKey.s \in seenPhones
                          \/ nameKey \in seenNames
                  IN  IF isDuplicate
                      THEN dedupPass(list, i + 1, seenEmails, seenPhones, seenNames,
                                     cleanedList, removedCount + 1)
                      ELSE dedupPass(list, i + 1,
                                     IF Truthy(emailKey) THEN seenEmails \cup {emailKey.s}
                                     ELSE seenEmails,
                                     IF Truthy(phoneKey) THEN seenPhones \cup {phoneKey.s}
                                     ELSE seenPhones,
                                     seenNames \cup {nameKey},
                                     Append(cleanedList, c), removedCount)

\* (variant: the pass starts at the second record)
removeDuplicateContactsFromSecond(list) == dedupPass(list, 2, {}, {}, {}, <<>>, 0)

removeDuplicateContacts(list) == dedupPass(list, 1, {}, {}, {}, <<>>, 0)

\* The short-circuiting || of isDuplicate, its three tests taken in the given
\* order; the source has them in the order email, phone, name
RECURSIVE isDuplicateIn(_, _, _, _, _, _, _)
isDuplicateIn(order, emailKey, phoneKey, nameKey, seenEmails, seenPhones, seenNames) ==
    IF order = <<>> THEN FALSE
    ELSE LET test == Head(order)
             hit == CASE test = "email" -> Truthy(emailKey) /\ emailKey.s \in seenEmails
                      [] test = "phone" -> Truthy(phoneKey) /\ phoneKey.s \in seenPhones
                      [] OTHER -> nameKey \in seenNames
         IN  IF hit THEN TRUE
             ELSE isDuplicateIn(Tail(order), emailKey, phoneKey, nameKey,
                                seenEmails, seenPhones, seenNames)

\* (variant: the || stops after its first two tests)
isDuplicateFirstTwo(order, emailKey, phoneKey, nameKey, seenEmails, seenPhones, seenNames) ==
    isDuplicateIn(SubSeq(order, 1, 2), emailKey, phoneKey, nameKey,
                  seenEmails, seenPhones, seenNames)

\* The || of isDuplicate as the pass calls it
isDuplicate(order, emailKey, phoneKey, nameKey, seenEmails, seenPhones, seenNames) ==
    isDuplicateIn(order, emailKey, phoneKey, nameKey, seenEmails, seenPhones, seenNames)

\* The forward pass with the tests of isDuplicate in the given order
RECURSIVE dedupPassIn(_, _, _, _, _, _, _, _)
dedupPassIn(order, list, i, seenEmails, seenPhones, seenNames, cleanedList, removedCount) ==
    IF i > Len(list)
    THEN [threw |-> FALSE, cleanedList |-> cleanedList, removedCount |-> removedCount]
    ELSE LET c == list[i]
             emailKey == emailKeyOf(c.email)
             phoneKey == phoneKeyOf(c.phone)
         IN  IF ~IsStr(c.fullName) \/ ~IsStr(c.surname)
             THEN [threw |-> TRUE, cleanedList |-> cleanedList, removedCount |-> removedCount]
             ELSE LET nameKey == nameKeyOf(c.fullName, c.surname) IN
                  IF isDuplicate(order, emailKey, phoneKey, nameKey,
                                 seenEmails, seenPhones, seenNames)
                  THEN dedupPassIn(order, list, i + 1, seenEmails, seenPhones, seenNames,
                                   cleanedList, removedCount + 1)
                  ELSE dedupPassIn(order, list, i + 1,
                                   IF Truthy(emailKey) THEN seenEmails \cup {emailKey.s}
                                   ELSE seenEmails,
                                   IF Truthy(phoneKey) THEN seenPhones \cup {phoneKey.s}
                                   ELSE seenPhones,
                                   seenNames \cup {nameKey},
                                   Append(cleanedList, c), removedCount)

removeDuplicateContactsIn(order, list) == dedupPassIn(order, list, 1, {}, {}, {}, <<>>, 0)

---------------------------------------------------------------------------
(* Texts used as field values *)

tAna == <<"A", "n", "a">>
tAnaVariant == <<" ", "a", "N", "A">>
tBob == <<"B", "o", "b">>
tSilva == <<"S", "i", "l", "v", "a">>
tSilvaVariant == <<"S", "I", "L", "V", "A", " ">>
tSouza == <<"S", "o", "u", "z", "a">>
tMail == <<"a", "@", "x">>
tMailVariant == <<"A", "@", "X", " ">>
tMailOther == <<"b", "@", "y">>
tMailNoAt == <<"a", "x">>
tPhone == <<"1", "1", "1", "1", "2", "2", "2", "2">>
tPhoneVariant == <<"1", "1", "1", "1", "-", "2", "2", "2", "2">>
tPhoneOther == <<"3", "3", "3", "3", "4", "4", "4", "4">>
tPhoneShort == <<"1", "2", "3", "4", "5">>
tEmpty == <<>>
tInitial == <<" ", "A", " ">>
tLi == <<"L", "i">>
tJo == <<"J", "o">>
tJoAna == <<"J", "o", "-", "A", "n", "a">>
tAnaSilva == <<"A", "n", "a", "-", "S", "i", "l", "v", "a">>
tPhoneNine == <<"(", "1", "1", ")", " ", "9", "9", "9", "9", "-", "8", "8", "8">>
tPhoneNineDigits == <<"1", "1", "9", "9", "9", "9", "8", "8", "8">>
tIdA == <<"a">>
tIdB == <<"b">>

---------------------------------------------------------------------------
(* The persistence adapter on its own: any storage file, any list *)

\* Lines a storage file may hold
LineSet ==
    { EmptyLine, SpacesLine, GarbageLine, ScalarLine,
      ObjectLine("canon", Contact(Str(tIdA), Str(tAna), Str(tSilva), Str(tMail), Undef)),
      ObjectLine("spaced", Contact(Num(1), Str(tBob), Str(tSouza), Undef, Str(tPhone))),
      ObjectLine("canon", Contact(Str(tIdB), Undef, Undef, Undef, Undef)),
      ObjectLine("canon", Contact(Num(2), Str(tBob), Undef, Undef, Undef)),
      ObjectLine("canon", Contact(Huge, Str(tAna), Str(tSouza), Undef, Undef)),
      ObjectLine("canon", Contact(Null, Str(tBob), Str(tSilva), Undef, Undef)),
      ObjectLine("canon", Contact(Num(3), Str(tAna), Str(tSouza), Null, Undef)) }

\* Contact objects a caller may hand to saveContactList
RecSet ==
    { Contact(Str(tIdA), Str(tAna), Str(tSilva), Str(tMail), Undef),
      Contact(Num(1), Str(tBob), Str(tSouza), Undef, Str(tPhone)),
      Contact(Str(tIdB), Undef, Undef, Undef, Undef),
      Contact(Num(2), Str(tBob), Undef, Undef, Undef),
      Contact(Inf, Str(tAna), Str(tSouza), Undef, Undef),
      Contact(Str(tIdB), Str(tAna), Str(tSouza), Null, Undef) }

SeqsUpTo(S, k) == UNION { [1..m -> S] : m \in 0..k }

Texts == SeqsUpTo(LineSet, MaxLines) \ {<<>>}
ArgLists == SeqsUpTo(RecSet, MaxLines)

NoCall == [op |-> "none", arg |-> <<>>, io |-> "ok", ret |-> <<>>, threw |-> FALSE,
           after |-> EmptyText]

NoSlots == <<>>

NoEngine == [kind |-> "none", op |-> "none", contact |-> NoFields, list |-> <<>>,
             currentId |-> Undef, result |-> "none", cleanedList |-> <<>>,
             removedCount |-> 0, threw |-> FALSE, order |-> <<>>, reread |-> <<>>,
             saved |-> EmptyText, savedBefore |-> EmptyText]

\* Either a storage file of any content and nothing to save, or no storage
\* file yet and any list to save
StoreInit ==
    /\ \/ exists = TRUE /\ file \in Texts /\ arg = <<>>
       \/ exists = FALSE /\ file = EmptyText /\ arg \in ArgLists
    /\ call = NoCall
    /\ prev = NoCall
    /\ slots = NoSlots
    /\ issued = 0
    /\ faults = 0
    /\ uuids = 0
    /\ overlap = FALSE
    /\ engine = NoEngine

StoreFrame == UNCHANGED <<engine, arg, slots, issued, faults, uuids, overlap>>

\* loadAll()
StoreLoad ==
    \E io \in ReadOutcomes :
        LET r == readContactList(file, io) IN
        /\ call' = [op |-> "loadAll", arg |-> <<>>, io |-> io, ret |-> r.list,
                    threw |-> r.threw, after |-> file]
        /\ prev' = call
        /\ UNCHANGED <<file, exists>>
        /\ StoreFrame

\* saveAll(list)
StoreSave ==
    \E io \in WriteOutcomes :
        LET w == writeFile(file, exists, saveData(arg), io) IN
        /\ file' = w.text
        /\ exists' = w.exists
        /\ call' = [op |-> "saveAll", arg |-> arg, io |-> io, ret |-> <<>>,
                    threw |-> writeThrows(io), after |-> w.text]
        /\ prev' = call
        /\ StoreFrame

\* clearAll()
StoreClear ==
    \E io \in WriteOutcomes :
        LET w == writeFile(file, exists, EmptyText, io) IN
        /\ file' = w.text
        /\ exists' = w.exists
        /\ call' = [op |-> "clearAll", arg |-> <<>>, io |-> io, ret |-> <<>>,
                    threw |-> writeThrows(io), after |-> w.text]
        /\ prev' = call
        /\ StoreFrame

\* saveAll(loadAll()), with no I/O failure
StoreRoundTrip ==
    /\ exists
    /\ LET r == readContactList(file, "ok")
           w == writeFile(file, exists, saveData(r.list), "ok") IN
        /\ ~r.threw
        /\ file' = w.text
        /\ exists' = w.exists
        /\ call' = [op |-> "roundTrip", arg |-> r.list, io |-> "ok", ret |-> <<>>,
                    threw |-> FALSE, after |-> w.text]
        /\ prev' = call
        /\ StoreFrame

StoreNext == StoreLoad \/ StoreSave \/ StoreClear \/ StoreRoundTrip

StoreSpec == StoreInit /\ [][StoreNext]_vars

---------------------------------------------------------------------------
(* The HTTP API: src/src/routes/router.ts, lines 380-623, over the service  *)
(* layer.  A handler runs alone until it awaits the file system; a step of  *)
(* a request is the code between two such waits.                            *)

Slots == {1, 2}

Request(op, body) == [op |-> op, body |-> body]

\* The requests a client sends
Requests ==
    { Request("POST", Contact(Str(tIdA), Str(tAna), Str(tSilva), Str(tMail), Str(tPhone))),
      Request("POST", Contact(Str(tIdB), Str(tBob), Str(tSouza), Str(tMailOther), Undef)),
      Request("POST", Contact(Num(0), Str(tAna), Str(tSouza), Undef, Undef)),
      Request("POST", Contact(Num(0), Str(tBob), Str(tSilva), Undef, Undef)),
      Request("POST", Contact(Undef, Str(tAnaVariant), Str(tSilvaVariant), Str(tMailVariant),
                              Str(tPhoneVariant))),
      Request("POST", Contact(Str(tIdA), Str(tBob), Undef, Undef, Undef)),
      Request("PUT", Contact(Str(tIdB), Str(tAnaVariant), Str(tSilvaVariant),
                             Str(tMailVariant), Undef)),
      Request("PUT", Contact(Str(tIdB), Undef, Undef, Undef, Str(tPhoneShort))),
      Request("PUT", Contact(Undef, Str(tBob), Undef, Undef, Undef)),
      Request("PUT", Contact(Num(0), Undef, Undef, Undef, Str(tPhoneOther))),
      Request("DELETE", Contact(Str(tIdA), Undef, Undef, Undef, Undef)),
      Request("DELETE", Contact(Num(0), Undef, Undef, Undef, Undef)),
      Request("DEDUP", NoFields),
      Request("CLEAR", NoFields) }

Idle == [op |-> "none", body |-> NoFields, pc |-> "idle", cand |-> NoFields, index |-> 0,
         seen |-> <<>>, data |-> EmptyText, err |-> "ok", wio |-> "none", resp |-> 0]

Init ==
    /\ exists = FALSE
    /\ file = EmptyText
    /\ arg = <<>>
    /\ call = NoCall
    /\ prev = NoCall
    /\ slots = [s \in Slots |-> Idle]
    /\ issued = 0
    /\ faults = 0
    /\ uuids = 0
    /\ overlap = FALSE
    /\ engine = NoEngine

InFlight(s) == slots[s].pc \notin {"idle", "done"}

\* An I/O outcome other than success or a missing file is a failure, and the
\* model admits MaxFaults of them
IsFault(io) == io \notin {"ok", "ENOENT"}
Admitted(ios) == { io \in ios : IsFault(io) => faults < MaxFaults }
CountFault(io) == faults' = IF IsFault(io) THEN faults + 1 ELSE faults

Answer(r, status, err) == [r EXCEPT !.pc = "done", !.resp = status, !.err = err]

\* The synchronous start of a handler, up to its first await
StartOf(req) ==
    LET r == [Idle EXCEPT !.op = req.op, !.body = req.body] IN
    CASE req.op = "POST" ->
            IF ~Truthy(req.body.fullName) \/ ~Truthy(req.body.surname)
            THEN Answer(r, 400, "ErrRequired") ELSE [r EXCEPT !.pc = "read"]
      [] req.op \in {"PUT", "DELETE"} ->
            IF ~Truthy(req.body.id)
            THEN Answer(r, 400, "ErrIdRequired") ELSE [r EXCEPT !.pc = "read"]
      [] req.op = "DEDUP" -> [r EXCEPT !.pc = "read"]
      [] OTHER -> [r EXCEPT !.pc = "write", !.data = EmptyText]

\* A request arrives, once the answers ready to go have been sent, and runs
\* to its first await
Receive(s) ==
    /\ issued < MaxReq
    /\ slots[s].pc = "idle"
    /\ \A t \in Slots : slots[t].pc # "done" /\ (t < s => slots[t].pc # "idle")
    /\ \E req \in Requests : slots' = [slots EXCEPT ![s] = StartOf(req)]
    /\ issued' = issued + 1
    /\ overlap' = (overlap \/ \E t \in Slots : InFlight(t))
    /\ UNCHANGED <<engine, arg, file, exists, call, prev, faults, uuids>>

\* router.post("/contato") once getContacts() has returned
PostValidated(r, list) ==
    LET b == r.body
        validationError == validateContactCreation(b, list)
        newContact == Contact(Coalesce(b.id, Uuid(uuids + 1)), b.fullName, b.surname,
                              b.email, b.phone)
    IN  IF validationError = "TypeError" THEN Answer(r, 500, validationError)
        ELSE IF validationError # "ok" THEN Answer(r, 400, validationError)
        ELSE [r EXCEPT !.pc = "reread", !.cand = newContact]

\* router.put("/contato") once getContacts() has returned
PutLocated(r, list) ==
    LET b == r.body
        index == findContactIndex(b.id, list)
        contactToUpdate == list[index]
        updatedContact == Contact(contactToUpdate.id,
                                  Coalesce(b.fullName, contactToUpdate.fullName),
                                  Coalesce(b.surname, contactToUpdate.surname),
                                  Coalesce(b.email, contactToUpdate.email),
                                  Coalesce(b.phone, contactToUpdate.phone))
    IN  IF index = 0 THEN Answer(r, 404, "ErrNotFound")
        ELSE [r EXCEPT !.pc = "reread", !.index = index, !.cand = updatedContact]

\* deleteContactById once readContactList() has returned
DeleteFiltered(r, list) ==
    LET filteredList == deleteContactByIdList(list, r.body.id) IN
    IF Len(filteredList) = Len(list) THEN Answer(r, 404, "ErrNotFound")
    ELSE [r EXCEPT !.pc = "write", !.data = saveData(filteredList)]

\* removeDuplicateContacts once readContactList() has returned
DedupCleaned(r, list) ==
    LET d == removeDuplicateContacts(list) IN
    IF d.threw THEN Answer(r, 500, "TypeError")
    ELSE [r EXCEPT !.pc = "write", !.data = saveData(d.cleanedList)]

\* The first read of a request returns
FirstRead(s) ==
    /\ slots[s].pc = "read"
    /\ \E io \in Admitted(ReadOutcomes) :
        LET r == slots[s]
            list == readContactList(file, io).list
        IN  /\ slots' = [slots EXCEPT ![s] =
                    CASE r.op = "POST" -> PostValidated(r, list)
                      [] r.op = "PUT" -> PutLocated(r, list)
                      [] r.op = "DELETE" -> DeleteFiltered(r, list)
                      [] OTHER -> DedupCleaned(r, list)]
            /\ uuids' = IF r.op = "POST" /\ slots'[s].pc = "reread"
                           /\ r.body.id.t \in {"undef", "null"}
                        THEN uuids + 1 ELSE uuids
            /\ CountFault(io)
    /\ UNCHANGED <<engine, arg, file, exists, call, prev, issued, overlap>>

\* The read inside addContact or updateContactInList returns, and the list
\* to save is built
SecondRead(s) ==
    /\ slots[s].pc = "reread"
    /\ \E io \in Admitted(ReadOutcomes) :
        LET r == slots[s]
            list == readContactList(file, io).list
            changed == IF r.op = "POST" THEN addContactList(list, r.cand)
                       ELSE updateContactInListList(list, r.index, r.cand)
        IN  /\ slots' = [slots EXCEPT ![s] =
                    [r EXCEPT !.pc = "write", !.seen = list, !.data = saveData(changed)]]
            /\ CountFault(io)
    /\ UNCHANGED <<engine, arg, file, exists, call, prev, issued, uuids, overlap>>

SuccessStatus(op) == IF op = "POST" THEN 201 ELSE 200

\* The handler's answer once saveContactList or clearContactList has ended
AfterWrite(r, io) ==
    IF writeThrows(io) THEN [Answer(r, 500, "ErrStorage") EXCEPT !.wio = io]
    ELSE [Answer(r, SuccessStatus(r.op), "ok") EXCEPT !.wio = io]

\* The write of a request ends
WriteEnds(s) ==
    /\ slots[s].pc = "write"
    /\ \E io \in Admitted(WriteOutcomes) :
        LET r == slots[s]
            w == writeFile(file, exists, r.data, io)
        IN  /\ file' = w.text
            /\ exists' = w.exists
            /\ slots' = [slots EXCEPT ![s] = AfterWrite(r, io)]
            /\ CountFault(io)
    /\ UNCHANGED <<engine, arg, call, prev, issued, uuids, overlap>>

\* The answer has been sent
Retire(s) ==
    /\ slots[s].pc = "done"
    /\ slots' = [slots EXCEPT ![s] = Idle]
    /\ UNCHANGED <<engine, arg, file, exists, call, prev, issued, faults, uuids, overlap>>

Next == \E s \in Slots : Receive(s) \/ FirstRead(s) \/ SecondRead(s) \/ WriteEnds(s) \/ Retire(s)

Spec == Init /\ [][Next]_vars

---------------------------------------------------------------------------
(* The validation module and the deduplication pass on their own: any      *)
(* candidate, any list of existing contacts.  They keep no state between   *)
(* calls, so a behaviour is one call on one input (and, for the            *)
(* deduplication, a second call on what the first one saved).              *)

\* Values of the fields of a candidate (ContactValidation, and Partial of it)
FullNames == { Undef, Str(tEmpty), Str(tInitial), Str(tAnaVariant), Str(tBob), Str(tJo) }
Surnames == { Undef, Str(tLi), Str(tSilva), Str(tAnaSilva) }
Emails == { Undef, Str(tEmpty), Str(tMailNoAt), Str(tMailVariant) }
Phones == { Undef, Str(tEmpty), Str(tPhoneShort), Str(tPhoneNine) }
Ids == { Undef, Num(0), Str(tIdA) }

Candidates ==
    { Contact(id, fullName, surname, email, phone) :
        id \in Ids, fullName \in FullNames, surname \in Surnames,
        email \in Emails, phone \in Phones }

\* Contacts of the list a validation is given
Existing ==
    { Contact(Str(tIdA), Str(tAna), Str(tSilva), Str(tMail), Str(tPhoneNineDigits)),
      Contact(Num(0), Str(tBob), Str(tSilva), Undef, Undef),
      Contact(Str(tIdB), Str(tJoAna), Str(tSilva), Undef, Undef),
      Contact(Num(1), Str(tJo), Str(tAnaSilva), Undef, Undef) }

\* Contacts of the list removeDuplicateContacts reads
Loaded ==
    { Contact(Num(1), Str(tAna), Str(tSilva), Str(tMail), Undef),
      Contact(Num(2), Str(tBob), Str(tSouza), Str(tMailVariant), Undef),
      Contact(Num(3), Str(tBob), Str(tSilva), Undef, Str(tPhoneNine)),
      Contact(Num(4), Str(tAna), Str(tSouza), Undef, Str(tPhoneNineDigits)),
      Contact(Num(5), Str(tJoAna), Str(tSilva), Undef, Undef),
      Contact(Num(6), Str(tJo), Str(tAnaSilva), Undef, Undef),
      Contact(Num(7), Str(tAnaVariant), Str(tSilvaVariant), Undef, Undef),
      Contact(Num(8), Str(tJo), Str(tSouza), Str(tMailVariant), Str(tPhoneNine)),
      Contact(Str(tIdB), Undef, Undef, Str(tMailOther), Undef) }

\* Two records with one email, then two with one phone
FourRecords ==
    << Contact(Num(1), Str(tAna), Str(tSilva), Str(tMail), Undef),
       Contact(Num(2), Str(tBob), Str(tSouza), Str(tMailVariant), Undef),
       Contact(Num(3), Str(tBob), Str(tSilva), Undef, Str(tPhoneNine)),
       Contact(Num(4), Str(tAna), Str(tSouza), Undef, Str(tPhoneNineDigits)) >>

\* The orders of the three tests of isDuplicate
Orders ==
    { <<"email", "phone", "name">>, <<"email", "name", "phone">>,
      <<"phone", "email", "name">>, <<"phone", "name", "email">>,
      <<"name", "email", "phone">>, <<"name", "phone", "email">> }

EngineInit ==
    /\ \/ \E c \in Candidates, l \in SeqsUpTo(Existing, MaxRecs) :
             engine = [NoEngine EXCEPT !.kind = "validation", !.contact = c, !.list = l]
       \/ \E l \in SeqsUpTo(Loaded, MaxDedup) \cup {FourRecords} :
             engine = [NoEngine EXCEPT !.kind = "deduplication", !.list = l]
    /\ arg = <<>>
    /\ file = EmptyText
    /\ exists = FALSE
    /\ call = NoCall
    /\ prev = NoCall
    /\ slots = NoSlots
    /\ issued = 0
    /\ faults = 0
    /\ uuids = 0
    /\ overlap = FALSE

EngineFrame ==
    UNCHANGED <<arg, file, exists, call, prev, slots, issued, faults, uuids, overlap>>

\* validateContactCreation(contact, list)
EngineCreation ==
    /\ engine.kind = "validation"
    /\ engine.op = "none"
    /\ engine' = [engine EXCEPT
                    !.op = "validateContactCreation",
                    !.currentId = Undef,
                    !.result = validateContactCreation(engine.contact, engine.list)]
    /\ EngineFrame

\* validateContactUpdate(contact, list, currentId), for the id of a contact of
\* the list
EngineUpdate ==
    /\ engine.kind = "validation"
    /\ engine.op = "none"
    /\ \E i \in 1..Len(engine.list) :
         LET currentId == engine.list[i].id IN
         engine' = [engine EXCEPT
                      !.op = "validateContactUpdate",
                      !.currentId = currentId,
                      !.result = validateContactUpdate(engine.contact, engine.list, currentId)]
    /\ EngineFrame

\* validateContactUpdate with the present values of the contact to update
EngineUpdateSame ==
    /\ engine.kind = "validation"
    /\ engine.op = "none"
    /\ \E i \in 1..Len(engine.list) :
         LET c == engine.list[i] IN
         engine' = [engine EXCEPT
                      !.op = "validateContactUpdate",
                      !.contact = c,
                      !.currentId = c.id,
                      !.result = validateContactUpdate(c, engine.list, c.id)]
    /\ EngineFrame

\* The pass of removeDuplicateContacts over the list read
EngineDeduplication ==
    /\ engine.kind = "deduplication"
    /\ engine.op = "none"
    /\ LET r == removeDuplicateContacts(engine.list) IN
       engine' = [engine EXCEPT
                    !.op = "removeDuplicateContacts",
                    !.cleanedList = r.cleanedList,
                    !.removedCount = r.removedCount,
                    !.threw = r.threw]
    /\ EngineFrame

\* The pass with the tests of isDuplicate in any order
EngineDeduplicationIn ==
    /\ engine.kind = "deduplication"
    /\ engine.op = "none"
    /\ \E order \in Orders :
         LET r == removeDuplicateContactsIn(order, engine.list) IN
         engine' = [engine EXCEPT
                      !.op = "removeDuplicateContactsIn",
                      !.order = order,
                      !.cleanedList = r.cleanedList,
                      !.removedCount = r.removedCount,
                      !.threw = r.threw]
    /\ EngineFrame

\* removeDuplicateContacts once more, on the list that it has saved: the
\* second pass reads what saveContactList wrote for the first
EngineDeduplicationAgain ==
    /\ engine.kind = "deduplication"
    /\ engine.op = "removeDuplicateContacts"
    /\ ~engine.threw
    /\ LET list == readContactList(saveData(engine.cleanedList), "ok").list
           r == removeDuplicateContacts(list)
       IN  engine' = [engine EXCEPT
                        !.op = "removeDuplicateContactsAgain",
                        !.reread = list,
                        !.savedBefore = saveData(engine.cleanedList),
                        !.saved = saveData(r.cleanedList),
                        !.cleanedList = r.cleanedList,
                        !.removedCount = r.removedCount,
                        !.threw = r.threw]
    /\ EngineFrame

EngineNext ==
    \/ EngineCreation \/ EngineUpdate \/ EngineUpdateSame
    \/ EngineDeduplication \/ EngineDeduplicationIn \/ EngineDeduplicationAgain

EngineSpec == EngineInit /\ [][EngineNext]_vars

---------------------------------------------------------------------------
(* The structural shape check as the specification words it: every part    *)
(* is required                                                             *)

ShapeOk(c) ==
    /\ typeof(c.id) \in {"string", "number"}
    /\ typeof(c.fullName) = "string"
    /\ typeof(c.surname) = "string"
    /\ (c.email = Undef \/ typeof(c.email) = "string")
    /\ (c.phone = Undef \/ typeof(c.phone) = "string")

LineShapeOk(line) == line.kind = "object" /\ ShapeOk(JSONparse(line))

\* C6: loadAll returns, in file order, exactly the records of the non-blank
\* lines that parse as JSON and pass the full shape check, and never fails.
C6_LoadAllKeepsExactlyWellShaped ==
    (call.op = "loadAll" /\ call.io = "ok") =>
        /\ ~call.threw
        /\ call.ret = parseLines(SelectSeq(file, LineShapeOk))

\* C7: saveAll writes exactly the records of its argument, in order, that
\* pass the full shape check; a record failing any part is never written.
C7_SaveAllWritesExactlyWellShaped ==
    (call.op = "saveAll" /\ call.io = "ok") =>
        file = join(stringifyAll(SelectSeq(call.arg, ShapeOk)))

\* C9: loadAll never returns an error; a missing file and any other I/O
\* failure during the read both give the empty sequence.
C9_LoadAllNeverFails ==
    call.op = "loadAll" =>
        /\ ~call.threw
        /\ (call.io # "ok" => call.ret = <<>>)

\* C9 witness: a read that fails for another reason than a missing file, on
\* a file that holds a well-formed record
C9_Witness ==
    /\ call.op = "loadAll"
    /\ call.io = "EIO"
    /\ \E i \in 1..Len(file) : LineShapeOk(file[i])
    /\ call.ret = <<>>

\* C10: saveAll(loadAll()) applied twice leaves the content of the first
\* application; loadAll() after saveAll(list) returns list when every record
\* of list passes the shape check.
C10_RoundTrip ==
    /\ (prev.op = "roundTrip" /\ call.op = "roundTrip") => file = prev.after
    /\ ( /\ prev.op = "saveAll" /\ prev.io = "ok"
         /\ \A i \in 1..Len(prev.arg) : ShapeOk(prev.arg[i])
         /\ call.op = "loadAll" /\ call.io = "ok" ) => call.ret = prev.arg

---------------------------------------------------------------------------
(* Claims about the HTTP API *)

\* The record set in storage
Stored == IF exists THEN readContactList(file, "ok").list ELSE <<>>

\* The requests so far ran one after the other, and no I/O failed
Sequential == ~overlap /\ faults = 0

SameEmail(c, d) ==
    /\ Truthy(c.email) /\ Truthy(d.email)
    /\ trim(toLowerCase(c.email.s)) = trim(toLowerCase(d.email.s))

SamePhone(c, d) ==
    /\ Truthy(c.phone) /\ Truthy(d.phone)
    /\ digitsOnly(c.phone.s) = digitsOnly(d.phone.s)

SameNamePair(c, d) ==
    /\ IsStr(c.fullName) /\ IsStr(d.fullName) /\ IsStr(c.surname) /\ IsStr(d.surname)
    /\ trim(toLowerCase(c.fullName.s)) = trim(toLowerCase(d.fullName.s))
    /\ trim(toLowerCase(c.surname.s)) = trim(toLowerCase(d.surname.s))

Pairs(list) == { p \in (1..Len(list)) \X (1..Len(list)) : p[1] < p[2] }

\* C1: from an empty storage file, after any sequence of non-overlapping
\* requests no two stored records share a normalized email or a digits-only
\* phone.
C1_NoSharedEmailOrPhone ==
    Sequential =>
        \A p \in Pairs(Stored) :
            /\ ~SameEmail(Stored[p[1]], Stored[p[2]])
            /\ ~SamePhone(Stored[p[1]], Stored[p[2]])

\* C2: from an empty storage file, after any sequence of non-overlapping
\* requests no two stored records share a normalized (fullName, surname) pair.
C2_NoSharedNamePair ==
    Sequential =>
        \A p \in Pairs(Stored) : ~SameNamePair(Stored[p[1]], Stored[p[2]])

\* C3: from an empty storage file, after non-overlapping creations with any
\* caller-supplied id (0 and "" included) or none, no two stored records have
\* the same id.
C3_IdsUnique ==
    Sequential =>
        \A p \in Pairs(Stored) : Stored[p[1]].id # Stored[p[2]].id

\* C4: a PUT for an existing id whose payload fails validateContactUpdate is
\* answered with a validation error and leaves the storage file unchanged.
C4_PutValidatesBeforePersisting ==
    Sequential =>
        \A s \in Slots :
            LET r == slots[s] IN
            ( /\ r.op = "PUT" /\ r.pc = "done" /\ r.index # 0
              /\ validateContactUpdate(r.body, r.seen, r.body.id) # "ok" )
            => (r.resp = 400 /\ Stored = r.seen)

Acked(s) == slots[s].op = "POST" /\ slots[s].pc = "done" /\ slots[s].resp = 201

Holds(list, c) == \E i \in 1..Len(list) : list[i] = c

\* Two acknowledged creations whose addContact read the same record set (both
\* loaded before either saved), each adding a record that set did not hold
Raced(a, b) ==
    /\ a # b /\ Acked(a) /\ Acked(b)
    /\ slots[a].seen = slots[b].seen
    /\ slots[a].cand # slots[b].cand
    /\ ~Holds(slots[a].seen, slots[a].cand)
    /\ ~Holds(slots[a].seen, slots[b].cand)

\* C5: when two concurrent creations both load the record set before either
\* saves, both are acknowledged and the storage is what one of them wrote:
\* the loaded set plus one record, the other record being lost.
C5_LostUpdate ==
    \A a, b \in Slots :
        Raced(a, b) =>
            /\ file = slots[a].data \/ file = slots[b].data
            /\ Len(Stored) <= Len(slots[a].seen) + 1
            /\ ~(Holds(Stored, slots[a].cand) /\ Holds(Stored, slots[b].cand))

\* C5 witness: two acknowledged creations, no I/O failure, and the storage
\* holds the record of the second and not that of the first
C5_Witness ==
    /\ faults = 0
    /\ Raced(1, 2)
    /\ Holds(Stored, slots[2].cand)
    /\ ~Holds(Stored, slots[1].cand)

\* C8: a request whose write failed is answered with the failure response,
\* never with a success response.
C8_FailedWriteIsReported ==
    \A s \in Slots :
        (slots[s].pc = "done" /\ slots[s].wio \in {"failed", "failedTruncated"})
        => (slots[s].resp = 500 /\ slots[s].err = "ErrStorage")

\* C8 witness: a creation that passed validation, whose write failed
C8_Witness ==
    \E s \in Slots :
        /\ slots[s].op = "POST" /\ slots[s].pc = "done"
        /\ slots[s].wio \in {"failed", "failedTruncated"}
        /\ slots[s].resp = 500

---------------------------------------------------------------------------
(* Claims about the validation module and the deduplication pass *)

Created == engine.op = "validateContactCreation"
Updated == engine.op = "validateContactUpdate"

\* Fewer than 2 characters after trimming, absent included
ShortName(v) == v = Undef \/ (IsStr(v) /\ Len(trim(v.s)) < 2)

\* Fewer than 3 characters after trimming, absent included
ShortSurname(v) == v = Undef \/ (IsStr(v) /\ Len(trim(v.s)) < 3)

\* Present as text, without "@"
EmailWithoutAt(v) == IsStr(v) /\ ~includes(v.s, "@")

\* Present as text, with fewer than 8 digits
PhoneUnderEight(v) == IsStr(v) /\ Len(digitsOnly(v.s)) < 8

SomeRecord(list, P(_)) == \E i \in 1..Len(list) : P(list[i])

\* C11: a candidate whose fullName has fewer than 2 characters after trimming
\* (absent or empty included) gets the name-length error from
\* validateContactCreation, whatever its other fields and the existing list.
C11_ShortNameRejected ==
    (Created /\ ShortName(engine.contact.fullName)) => engine.result = "ErrName"

\* C11 witness: a one-letter name between spaces, on a candidate whose
\* surname is too short, whose email has no "@", and whose id is taken
C11_Witness ==
    /\ Created
    /\ engine.contact.fullName = Str(tInitial)
    /\ ShortSurname(engine.contact.surname)
    /\ EmailWithoutAt(engine.contact.email)
    /\ SomeRecord(engine.list, LAMBDA d : d.id = engine.contact.id)
    /\ engine.result = "ErrName"

\* C12: a candidate whose email is any string without "@" is rejected by
\* validateContactCreation and by validateContactUpdate.
C12_EmailWithoutAtRejected ==
    ((Created \/ Updated) /\ EmailWithoutAt(engine.contact.email)) => engine.result # "ok"

\* C13: a candidate whose phone is a string with fewer than 8 digits is
\* rejected by validateContactCreation and by validateContactUpdate; the
\* phone "(11) 9999-888" never gets the phone error.
C13_ShortPhoneRejected ==
    (Created \/ Updated) =>
        /\ PhoneUnderEight(engine.contact.phone) => engine.result # "ok"
        /\ engine.contact.phone = Str(tPhoneNine) => engine.result # "ErrPhone"

\* C14: for a structurally valid candidate with no id, email or phone
\* conflict, validateContactCreation returns the duplicate-name error if and
\* only if an existing record has the same normalized fullName and the same
\* normalized surname.
C14_DuplicateNameIffSamePair ==
    LET c == engine.contact IN
    ( /\ Created
      /\ validateBasicFields(c) = "ok"
      /\ ~SomeRecord(engine.list, LAMBDA d : d.id = c.id)
      /\ ~SomeRecord(engine.list, LAMBDA d : SameEmail(c, d))
      /\ ~SomeRecord(engine.list, LAMBDA d : SamePhone(c, d)) )
    => (engine.result = "ErrDupName" <=> SomeRecord(engine.list, LAMBDA d : SameNamePair(c, d)))

\* C15, as stated: a structurally valid candidate with an email equal, after
\* lowercase and trim, to the email of an existing record gets the
\* duplicate-email error from validateContactCreation.
C15_DuplicateEmailError ==
    LET c == engine.contact IN
    ( /\ Created
      /\ validateBasicFields(c) = "ok"
      /\ SomeRecord(engine.list, LAMBDA d : SameEmail(c, d)) )
    => engine.result = "ErrDupEmail"

\* C15: a structurally valid candidate with an email equal, after lowercase
\* and trim, to the email of an existing record is rejected by
\* validateContactCreation: with the duplicate-email error, unless the id
\* check or the name check, which come first, reject it with their own error.
C15_DuplicateEmailRejected ==
    LET c == engine.contact IN
    ( /\ Created
      /\ validateBasicFields(c) = "ok"
      /\ SomeRecord(engine.list, LAMBDA d : SameEmail(c, d)) )
    => /\ engine.result \in {"ErrIdExists", "ErrDupName", "ErrDupEmail"}
       /\ engine.result = "ErrIdExists" => SomeRecord(engine.list, LAMBDA d : d.id = c.id)
       /\ engine.result = "ErrDupName" =>
              SomeRecord(engine.list,
                         LAMBDA d : nameKeyOf(d.fullName, d.surname)
                                        = nameKeyOf(c.fullName, c.surname))

\* C15 witness: an email in capitals followed by a space, no other conflict
C15_Witness ==
    /\ Created
    /\ engine.contact.email = Str(tMailVariant)
    /\ SomeRecord(engine.list, LAMBDA d : d.email = Str(tMail))
    /\ engine.result = "ErrDupEmail"

\* The checks of a creation in the order the specification gives them
CreationVerdict(c, list) ==
    IF ShortName(c.fullName) THEN "ErrName"
    ELSE IF ShortSurname(c.surname) THEN "ErrSurname"
    ELSE IF EmailWithoutAt(c.email) THEN "ErrEmail"
    ELSE IF PhoneUnderEight(c.phone) THEN "ErrPhone"
    ELSE IF c.id # Undef /\ SomeRecord(list, LAMBDA d : d.id = c.id) THEN "ErrIdExists"
    ELSE IF SomeRecord(list, LAMBDA d : SameNamePair(c, d)) THEN "ErrDupName"
    ELSE IF SomeRecord(list, LAMBDA d : SameEmail(c, d)) THEN "ErrDupEmail"
    ELSE IF SomeRecord(list, LAMBDA d : SamePhone(c, d)) THEN "ErrDupPhone"
    ELSE "ok"

\* C16: validateContactCreation returns the error of the first check that
\* fails, in the order name length, surname length, email format, phone
\* digits, id uniqueness, duplicate name-pair, duplicate email, duplicate
\* phone; it returns null only if every check passes.
C16_FirstFailingCheck ==
    Created => engine.result = CreationVerdict(engine.contact, engine.list)

\* The uniqueness invariants of a record set
Unique(list) ==
    \A p \in Pairs(list) :
        /\ list[p[1]].id # list[p[2]].id
        /\ ~SameNamePair(list[p[1]], list[p[2]])
        /\ ~SameEmail(list[p[1]], list[p[2]])
        /\ ~SamePhone(list[p[1]], list[p[2]])

\* C17: on a record set that satisfies the uniqueness invariants,
\* validateContactUpdate called for a record with that record's own
\* fullName, surname, email and phone returns null.
C17_SelfExclusion ==
    ( /\ Updated
      /\ Unique(engine.list)
      /\ engine.currentId = engine.contact.id
      /\ SomeRecord(engine.list, LAMBDA d : d = engine.contact) )
    => engine.result = "ok"

\* The payload's present fields laid over the stored values of the target
Overlay(t, payload) ==
    Contact(t.id,
            IF payload.fullName # Undef THEN payload.fullName ELSE t.fullName,
            IF payload.surname # Undef THEN payload.surname ELSE t.surname,
            IF payload.email # Undef THEN payload.email ELSE t.email,
            IF payload.phone # Undef THEN payload.phone ELSE t.phone)

\* C18: when validateContactUpdate accepts a payload for the target, the
\* target overlaid with the payload shares no normalized name-pair, email or
\* phone with any other record of the list.
C18_AcceptedUpdateKeepsInvariants ==
    ( /\ Updated
      /\ Unique(engine.list)
      /\ engine.result = "ok" )
    => \A i, j \in 1..Len(engine.list) :
          (engine.list[i].id = engine.currentId /\ engine.list[j].id # engine.currentId)
          => LET u == Overlay(engine.list[i], engine.contact)
                 d == engine.list[j]
             IN  ~SameNamePair(u, d) /\ ~SameEmail(u, d) /\ ~SamePhone(u, d)

\* The length or format error of an update, if that is what it returned
Structural(result) ==
    IF result \in {"ErrName", "ErrSurname", "ErrEmail", "ErrPhone"} THEN result ELSE "ok"

\* The payload as a creation candidate: a name or surname the payload omits
\* is one that passes
Supplied(payload) ==
    Contact(Undef,
            IF payload.fullName = Undef THEN Str(tAna) ELSE payload.fullName,
            IF payload.surname = Undef THEN Str(tSilva) ELSE payload.surname,
            payload.email, payload.phone)

\* C19: validateContactUpdate never returns the length or format error of a
\* field the payload omits, and its structural verdict on the fields the
\* payload supplies is that of the creation checks on the same values.
C19_OnlySuppliedFieldsChecked ==
    Updated =>
        /\ engine.result = "ErrName" => engine.contact.fullName # Undef
        /\ engine.result = "ErrSurname" => engine.contact.surname # Undef
        /\ engine.result = "ErrEmail" => engine.contact.email # Undef
        /\ engine.result = "ErrPhone" => engine.contact.phone # Undef
        /\ Structural(engine.result) = validateBasicFields(Supplied(engine.contact))

\* C19 witness: a payload without fullName and surname, rejected for its email
C19_Witness ==
    /\ Updated
    /\ engine.contact.fullName = Undef
    /\ engine.contact.surname = Undef
    /\ engine.contact.email = Str(tMailNoAt)
    /\ engine.result = "ErrEmail"

\* The forward pass as the specification gives it: a record is kept unless
\* an earlier kept record has its normalized email, phone or name-pair
RECURSIVE KeptFrom(_, _, _)
KeptFrom(list, i, kept) ==
    IF i > Len(list) THEN kept
    ELSE LET c == list[i]
             dup == SomeRecord(kept, LAMBDA k : SameEmail(c, k) \/ SamePhone(c, k)
                                                \/ SameNamePair(c, k))
         IN  KeptFrom(list, i + 1, IF dup THEN kept ELSE Append(kept, c))

\* C20: removeDuplicateContacts keeps, in order, exactly the records that
\* share no normalized email, phone or name-pair with an earlier kept
\* record, and counts the others.
C20_SingleForwardPass ==
    engine.op = "removeDuplicateContacts" =>
        /\ ~engine.threw
        /\ engine.cleanedList = KeptFrom(engine.list, 1, <<>>)
        /\ engine.removedCount = Len(engine.list) - Len(engine.cleanedList)

\* removeDuplicateContacts ran to its end
Deduplicated == engine.op = "removeDuplicateContacts" /\ ~engine.threw

Kept(c) == Holds(engine.cleanedList, c)

SharesKey(c, d) == SameEmail(c, d) \/ SamePhone(c, d) \/ SameNamePair(c, d)

\* Record i is the first of the input to carry one of its key values
FirstCarrier(list, i) ==
    \/ Truthy(list[i].email) /\ \A j \in 1..(i - 1) : ~SameEmail(list[j], list[i])
    \/ Truthy(list[i].phone) /\ \A j \in 1..(i - 1) : ~SamePhone(list[j], list[i])
    \/ \A j \in 1..(i - 1) : ~SameNamePair(list[j], list[i])

\* Record i shares a key value with a kept record that comes before it
AfterKeptTwin(list, i) ==
    \E j \in 1..(i - 1) : Kept(list[j]) /\ SharesKey(list[i], list[j])

\* Names that are strings without a hyphen
PlainNames(list) ==
    \A i \in 1..Len(list) :
        /\ IsStr(list[i].fullName) /\ ~includes(list[i].fullName.s, "-")
        /\ IsStr(list[i].surname) /\ ~includes(list[i].surname.s, "-")

C22_KeptAreKeyDisjoint ==
    Deduplicated =>
        /\ \A p \in Pairs(engine.cleanedList) :
              ~SharesKey(engine.cleanedList[p[1]], engine.cleanedList[p[2]])
        /\ \A i \in 1..Len(engine.list) :
              AfterKeptTwin(engine.list, i) =>
                  \/ ~Kept(engine.list[i])
                  \/ \E j \in 1..(i - 1) : engine.list[j] = engine.list[i]

\* C22 witness: a record removed for its phone alone, typed differently
C22_Witness ==
    /\ Deduplicated
    /\ \E i, j \in 1..Len(engine.list) :
          /\ j < i
          /\ Kept(engine.list[j])
          /\ SamePhone(engine.list[i], engine.list[j])
          /\ engine.list[i].phone # engine.list[j].phone
          /\ ~SameEmail(engine.list[i], engine.list[j])
          /\ ~SameNamePair(engine.list[i], engine.list[j])
          /\ ~Kept(engine.list[i])

\* C23: on records that readContactList returns, removeDuplicateContacts
\* runs to its end and raises no error, also when a record has no fullName
\* or no surname.
C23_DeduplicationNeverRaises ==
    ( /\ engine.op = "removeDuplicateContacts"
      /\ \A i \in 1..Len(engine.list) : isValidContact(engine.list[i]) )
    => ~engine.threw

C28_DeduplicationIdempotent ==
    engine.op = "removeDuplicateContactsAgain" =>
        /\ ~engine.threw
        /\ engine.removedCount = 0
        /\ engine.cleanedList = engine.reread
        /\ engine.saved = engine.savedBefore

\* C28 witness: a second pass after a first one that removed a record and
\* kept two
C28_Witness ==
    /\ engine.op = "removeDuplicateContactsAgain"
    /\ Len(engine.reread) < Len(engine.list)
    /\ Len(engine.reread) >= 2
    /\ engine.removedCount = 0

\* C24: readContactList skips blank lines; saveContactList writes no blank
\* line and no newline at the end; saving the empty list, or
\* clearContactList, leaves the empty file, from which readContactList
\* returns the empty list.
C24_NoBlankLines ==
    /\ (call.op = "loadAll" /\ call.io = "ok") =>
          /\ call.ret = parseLines(SelectSeq(file, LineIsContact))
          /\ Len(call.ret) <= Len(SelectSeq(file, NotBlank))
          /\ file = EmptyText => call.ret = <<>>
    /\ (call.op = "saveAll" /\ call.io = "ok") =>
          /\ file = EmptyText \/ \A i \in 1..Len(file) : ~IsBlank(file[i])
          /\ call.arg = <<>> => file = EmptyText
    /\ (call.op = "clearAll" /\ call.io = "ok") => file = EmptyText
    /\ ( /\ prev.io = "ok"
         /\ prev.op = "clearAll" \/ (prev.op = "saveAll" /\ prev.arg = <<>>)
         /\ call.op = "loadAll" /\ call.io = "ok" ) => call.ret = <<>>

\* C24 witness: the file is cleared, then read
C24_Witness ==
    /\ prev.op = "clearAll" /\ prev.io = "ok"
    /\ call.op = "loadAll" /\ call.io = "ok"
    /\ call.ret = <<>>
    /\ file = EmptyText

---------------------------------------------------------------------------
(* Claims about the effect of a request on the storage *)

\* Slot s answers in this step
Answers(s) == slots[s].pc # "done" /\ slots'[s].pc = "done"

\* Positions of the stored records with the given id
Positions(id) == { i \in 1..Len(Stored) : Stored[i].id = id }

\* C26: a successful PUT that runs alone replaces the record of its id in
\* place - the fields of the payload laid over the stored ones, every other
\* record and the order unchanged; a PUT for an id that no stored record has
\* is answered not-found and leaves the storage as it was.
C26_PutReplacesInPlace ==
    [][ \A s \in Slots :
          (Answers(s) /\ slots'[s].op = "PUT" /\ slots'[s].body.id # Undef /\ Sequential')
          => LET r == slots'[s]
                 hits == Positions(r.body.id)
             IN  IF hits = {}
                 THEN r.resp = 404 /\ file' = file /\ exists' = exists
                 ELSE r.resp = 200 =>
                        /\ Len(Stored') = Len(Stored)
                        /\ \A i \in 1..Len(Stored) :
                              Stored'[i] = IF i = Min(hits)
                                           THEN Overlay(Stored[i], r.body)
                                           ELSE Stored[i] ]_vars

\* C27: a DELETE that runs alone removes the stored records of its id and
\* no other, the rest keeping their order; when no stored record has the id
\* it is answered not-found and the file is not written.
C27_DeleteRemovesExactlyId ==
    [][ \A s \in Slots :
          (Answers(s) /\ slots'[s].op = "DELETE" /\ slots'[s].body.id # Undef /\ Sequential')
          => LET r == slots'[s]
                 hits == Positions(r.body.id)
             IN  IF hits = {}
                 THEN r.resp = 404 /\ file' = file /\ exists' = exists
                 ELSE /\ r.resp = 200
                      /\ Stored' = SelectSeq(Stored, LAMBDA c : c.id # r.body.id) ]_vars

\* C29: whatever requests run beside a PUT, the index found in the list
\* that the handler read still holds the record of that id in the list that
\* updateContactInList reads again.
C29_IndexStillDesignatesTarget ==
    faults = 0 =>
        \A s \in Slots :
            (slots[s].op = "PUT" /\ slots[s].pc = "write")
            => /\ slots[s].index <= Len(slots[s].seen)
               /\ slots[s].seen[slots[s].index].id = slots[s].body.id

\* C30: when a POST that runs alone is answered with success, the storage
\* holds the records it held before, in their order, followed by the new
\* record - also when a read inside the request failed.
C30_PostKeepsStoredRecords ==
    [][ \A s \in Slots :
          (Answers(s) /\ slots'[s].op = "POST" /\ slots'[s].resp = 201 /\ ~overlap')
          => Stored' = Append(Stored, slots'[s].cand) ]_vars

=============================================================================
